---- MODULE Spec2Model ----
(***************************************************************************)
(* Crafting simulator (simulator/src/state.rs) and best-first macro solver *)
(* (solvers/src/macro_solver.rs) of raphael-rs.                            *)
(***************************************************************************)
EXTENDS Integers, Sequences, FiniteSets, TLC

VARIABLES
    settings,        \* the Settings record of the run (immutable)
    sim,             \* simulator: the State reached so far
    last,            \* simulator: the last use_action call and its input
    calls,           \* simulator: the number of use_action calls so far
    pc,              \* solver: position in MacroSolver::solve / do_solve
    input,           \* solver: the State passed to solve
    bound_table,     \* solver: the solved reduced states of the bound solver
    visited_states,  \* do_solve: key -> least missing_quality seen
    search_queue,    \* do_solve: the priority queue, a set of entries
    traces,          \* do_solve: the backtrack vector
    best_quality,    \* do_solve
    best_state,      \* do_solve: <<>> is None
    best_trace,      \* do_solve
    node,            \* do_solve: the popped entry being expanded
    todo,            \* do_solve: the actions the for loop has yet to try
    step,            \* do_solve: what the last loop iteration did
    pops,            \* do_solve: the number of while loop iterations so far
    result           \* solve: <<>> is None, <<actions>> is Some(actions)

simvars == <<sim, last, calls>>

solvervars == <<pc, input, bound_table, visited_states, search_queue, traces,
                best_quality, best_state, best_trace, node, todo, step,
                pops, result>>

vars == <<settings, simvars, solvervars>>

(***************************************************************************)
(* Closed enumerations.                                                    *)
(***************************************************************************)
\* the Action enumeration, in declaration order (the order actions_iter
\* visits a mask in)
ActionOrder ==
    <<"BasicSynthesis", "CarefulSynthesis", "PrudentSynthesis", "Groundwork",
      "MuscleMemory", "IntensiveSynthesis", "DelicateSynthesis", "BasicTouch",
      "StandardTouch", "AdvancedTouch", "ByregotsBlessing", "PreciseTouch",
      "PrudentTouch", "PreparatoryTouch", "TrainedFinesse", "Reflect",
      "MasterMend", "Manipulation", "WasteNot", "WasteNot2", "Veneration",
      "Innovation", "GreatStrides", "TricksOfTheTrade", "Observe">>

Actions == {ActionOrder[i] : i \in 1..Len(ActionOrder)}

Conditions == {"Normal", "Good", "Excellent", "Poor", "Pliant"}

NoCombo == "None"

Min(a, b) == IF a <= b THEN a ELSE b

\* u32::saturating_sub
SatSub(a, b) == IF a >= b THEN a - b ELSE 0

(***************************************************************************)
(* Effects: the buff counters of a state.                                  *)
(***************************************************************************)
DefaultEffects ==
    [inner_quiet |-> 0, waste_not |-> 0, innovation |-> 0, veneration |-> 0,
     great_strides |-> 0, muscle_memory |-> 0, manipulation |-> 0]

\* Effects::tick_down: every duration counter loses 1, saturating at 0
tick_down(e) ==
    [e EXCEPT !.waste_not = SatSub(@, 1), !.innovation = SatSub(@, 1),
              !.veneration = SatSub(@, 1), !.great_strides = SatSub(@, 1),
              !.muscle_memory = SatSub(@, 1), !.manipulation = SatSub(@, 1)]

(***************************************************************************)
(* Per-action cost and yield.                                              *)
(***************************************************************************)
base_cp_cost(a) ==
    CASE a = "BasicSynthesis" -> 0
      [] a = "CarefulSynthesis" -> 7
      [] a = "PrudentSynthesis" -> 18
      [] a = "Groundwork" -> 18
      [] a = "MuscleMemory" -> 6
      [] a = "IntensiveSynthesis" -> 6
      [] a = "DelicateSynthesis" -> 32
      [] a = "BasicTouch" -> 18
      [] a = "StandardTouch" -> 32
      [] a = "AdvancedTouch" -> 46
      [] a = "ByregotsBlessing" -> 24
      [] a = "PreciseTouch" -> 18
      [] a = "PrudentTouch" -> 25
      [] a = "PreparatoryTouch" -> 40
      [] a = "TrainedFinesse" -> 32
      [] a = "Reflect" -> 6
      [] a = "WasteNot" -> 56
      [] a = "WasteNot2" -> 98
      [] a = "Veneration" -> 18
      [] a = "Innovation" -> 18
      [] a = "GreatStrides" -> 32
      [] a = "TricksOfTheTrade" -> 0
      [] a = "Observe" -> 7
      [] a = "MasterMend" -> 88
      [] a = "Manipulation" -> 96

cp_cost(a, effects, condition) == base_cp_cost(a)

base_durability_cost(a) ==
    CASE a \in {"PreparatoryTouch", "Groundwork"} -> 20
      [] a \in {"PrudentTouch", "PrudentSynthesis"} -> 5
      [] a \in {"TrainedFinesse", "MasterMend", "Manipulation", "WasteNot",
                "WasteNot2", "Veneration", "Innovation", "GreatStrides",
                "TricksOfTheTrade", "Observe"} -> 0
      [] OTHER -> 10

\* reduced by 50% (rounded up) while waste_not is active
durability_cost(a, effects, condition) ==
    IF effects.waste_not > 0
    THEN (base_durability_cost(a) + 1) \div 2
    ELSE base_durability_cost(a)

\* efficiency in percent
progress_efficiency(a) ==
    CASE a = "BasicSynthesis" -> 120
      [] a = "CarefulSynthesis" -> 180
      [] a = "PrudentSynthesis" -> 180
      [] a = "Groundwork" -> 360
      [] a = "MuscleMemory" -> 300
      [] a = "IntensiveSynthesis" -> 400
      [] a = "DelicateSynthesis" -> 100
      [] OTHER -> 0

quality_efficiency(a, effects) ==
    CASE a = "BasicTouch" -> 100
      [] a = "StandardTouch" -> 125
      [] a = "AdvancedTouch" -> 150
      [] a = "ByregotsBlessing" -> 100 + 20 * effects.inner_quiet
      [] a = "PreciseTouch" -> 150
      [] a = "PrudentTouch" -> 100
      [] a = "PreparatoryTouch" -> 200
      [] a = "TrainedFinesse" -> 100
      [] a = "Reflect" -> 100
      [] a = "DelicateSynthesis" -> 100
      [] OTHER -> 0

\* base_progress * efficiency * (1 + 0.5[veneration] + 1.0[muscle_memory])
progress_increase(a, s, effects, condition) ==
    (s.base_progress * progress_efficiency(a)
       * (2 + (IF effects.veneration > 0 THEN 1 ELSE 0)
            + (IF effects.muscle_memory > 0 THEN 2 ELSE 0))) \div 200

\* base_quality * efficiency * (1 + 0.1 inner_quiet)
\*              * (1 + 0.5[innovation] + 1.0[great_strides])
quality_increase(a, s, effects, condition) ==
    (s.base_quality * quality_efficiency(a, effects)
       * (10 + effects.inner_quiet)
       * (2 + (IF effects.innovation > 0 THEN 1 ELSE 0)
            + (IF effects.great_strides > 0 THEN 2 ELSE 0))) \div 2000

required_combo(a) ==
    IF a \in {"MuscleMemory", "Reflect"} THEN "SynthesisBegin" ELSE NoCombo

to_combo(a) ==
    IF a \in {"BasicTouch", "StandardTouch", "AdvancedTouch"} THEN a
    ELSE NoCombo

(***************************************************************************)
(* simulator/src/state.rs                                                  *)
(***************************************************************************)
Invalid == [tag |-> "Invalid"]

Completed(mq) == [tag |-> "Completed", missing_quality |-> mq]

Failed(mp) == [tag |-> "Failed", missing_progress |-> mp]

IsInProgress(st) == st.tag = "InProgress"

\* InProgress::new
NewInProgress(s) ==
    [tag |-> "InProgress", cp |-> s.max_cp, durability |-> s.max_durability,
     missing_progress |-> s.max_progress, missing_quality |-> s.max_quality,
     effects |-> DefaultEffects, combo |-> "SynthesisBegin"]

\* can_use_action without the condition gate of lines 74-76
can_use_action_any_condition(st, a, condition) ==
    /\ cp_cost(a, st.effects, condition) <= st.cp
    /\ ~(required_combo(a) # NoCombo /\ st.combo # required_combo(a))
    /\ CASE a = "ByregotsBlessing" -> st.effects.inner_quiet # 0
         [] a \in {"PrudentSynthesis", "PrudentTouch"} ->
              st.effects.waste_not = 0
         [] a = "Groundwork" ->
              st.durability >= durability_cost(a, st.effects, condition)
         [] a = "TrainedFinesse" -> st.effects.inner_quiet = 10
         [] OTHER -> TRUE

\* can_use_action without the inner_quiet gate of line 80
can_use_action_any_inner_quiet(st, a, condition) ==
    /\ cp_cost(a, st.effects, condition) <= st.cp
    /\ ~(required_combo(a) # NoCombo /\ st.combo # required_combo(a))
    /\ CASE a = "ByregotsBlessing" -> st.effects.inner_quiet # 0
         [] a \in {"PrudentSynthesis", "PrudentTouch"} ->
              st.effects.waste_not = 0
         [] a \in {"IntensiveSynthesis", "PreciseTouch", "TricksOfTheTrade"} ->
              condition \in {"Good", "Excellent"}
         [] a = "Groundwork" ->
              st.durability >= durability_cost(a, st.effects, condition)
         [] OTHER -> TRUE

\* InProgress::can_use_action
can_use_action(st, a, condition) ==
    /\ cp_cost(a, st.effects, condition) <= st.cp
    /\ ~(required_combo(a) # NoCombo /\ st.combo # required_combo(a))
    /\ CASE a = "ByregotsBlessing" -> st.effects.inner_quiet # 0
         [] a \in {"PrudentSynthesis", "PrudentTouch"} ->
              st.effects.waste_not = 0
         [] a \in {"IntensiveSynthesis", "PreciseTouch", "TricksOfTheTrade"} ->
              condition \in {"Good", "Excellent"}
         [] a = "Groundwork" ->
              st.durability >= durability_cost(a, st.effects, condition)
         [] a = "TrainedFinesse" -> st.effects.inner_quiet = 10
         [] OTHER -> TRUE

\* lines 95-120 without lines 112-117: every action that raises the quality
\* adds 1 to inner quiet
IncreasedByOne(st, a, s, cpc, dc, pi, qi) ==
    [st EXCEPT
        !.combo = to_combo(a),
        !.cp = @ - cpc,
        !.durability = @ - dc,
        !.missing_progress = IF pi # 0 THEN SatSub(@, pi) ELSE @,
        !.missing_quality = IF qi # 0 THEN SatSub(@, qi) ELSE @,
        !.effects = [@ EXCEPT
            !.muscle_memory = IF pi # 0 THEN 0 ELSE @,
            !.great_strides = IF qi # 0 THEN 0 ELSE @,
            !.inner_quiet =
                IF qi # 0 /\ s.job_level >= 11 THEN Min(10, @ + 1) ELSE @]]

\* use_action, lines 95-120: the state after the costs, the progress
\* increase pi and the quality increase qi of action a are applied
Increased(st, a, s, cpc, dc, pi, qi) ==
    [st EXCEPT
        !.combo = to_combo(a),
        !.cp = @ - cpc,
        !.durability = @ - dc,
        !.missing_progress = IF pi # 0 THEN SatSub(@, pi) ELSE @,
        !.missing_quality = IF qi # 0 THEN SatSub(@, qi) ELSE @,
        !.effects = [@ EXCEPT
            !.muscle_memory = IF pi # 0 THEN 0 ELSE @,
            !.great_strides = IF qi # 0 THEN 0 ELSE @,
            !.inner_quiet =
                IF qi # 0 /\ s.job_level >= 11
                THEN Min(10, @ + (IF a \in {"Reflect", "PreciseTouch",
                                            "PreparatoryTouch"}
                                  THEN 2 ELSE 1))
                ELSE @]]

AfterIncrease(st, a, condition, s) ==
    Increased(st, a, s, cp_cost(a, st.effects, condition),
              durability_cost(a, st.effects, condition),
              progress_increase(a, s, st.effects, condition),
              quality_increase(a, s, st.effects, condition))

\* lines 138-141 without lines 133-136: a manipulation effect that is
\* active heals also on the turn Manipulation is used
TickedHealing(n, a, s) ==
    [n EXCEPT
        !.durability =
            IF n.effects.manipulation > 0
            THEN Min(@ + 5, s.max_durability) ELSE @,
        !.effects = tick_down(@)]

\* lines 138-141 in the other order: the tick comes before the heal, so
\* the last turn of the effect does not heal
TickedBeforeHeal(n, a, s) ==
    [n EXCEPT
        !.durability =
            IF a # "Manipulation" /\ n.effects.manipulation > 1
            THEN Min(@ + 5, s.max_durability) ELSE @,
        !.effects = tick_down([@ EXCEPT !.manipulation =
                                  IF a = "Manipulation" THEN 0 ELSE @])]

\* use_action, lines 133-141: Manipulation does not heal on the turn it is
\* used; an active manipulation restores 5 durability; then the tick
Ticked(n, a, s) ==
    [n EXCEPT
        !.durability =
            IF a # "Manipulation" /\ n.effects.manipulation > 0
            THEN Min(@ + 5, s.max_durability) ELSE @,
        !.effects = tick_down([@ EXCEPT !.manipulation =
                                  IF a = "Manipulation" THEN 0 ELSE @])]

\* the effects of the action without the caps of lines 155 and 159
TriggeredUncapped(t, a, bonus, s) ==
    CASE a = "MuscleMemory" -> [t EXCEPT !.effects.muscle_memory = 5 + bonus]
      [] a = "GreatStrides" -> [t EXCEPT !.effects.great_strides = 3 + bonus]
      [] a = "Veneration" -> [t EXCEPT !.effects.veneration = 4 + bonus]
      [] a = "Innovation" -> [t EXCEPT !.effects.innovation = 4 + bonus]
      [] a = "WasteNot" -> [t EXCEPT !.effects.waste_not = 4 + bonus]
      [] a = "WasteNot2" -> [t EXCEPT !.effects.waste_not = 8 + bonus]
      [] a = "Manipulation" -> [t EXCEPT !.effects.manipulation = 8 + bonus]
      [] a = "MasterMend" -> [t EXCEPT !.durability = @ + 30]
      [] a = "ByregotsBlessing" -> [t EXCEPT !.effects.inner_quiet = 0]
      [] a = "TricksOfTheTrade" -> [t EXCEPT !.cp = @ + 20]
      [] OTHER -> t

\* use_action, lines 143-162: the effects the action itself sets
Triggered(t, a, bonus, s) ==
    CASE a = "MuscleMemory" -> [t EXCEPT !.effects.muscle_memory = 5 + bonus]
      [] a = "GreatStrides" -> [t EXCEPT !.effects.great_strides = 3 + bonus]
      [] a = "Veneration" -> [t EXCEPT !.effects.veneration = 4 + bonus]
      [] a = "Innovation" -> [t EXCEPT !.effects.innovation = 4 + bonus]
      [] a = "WasteNot" -> [t EXCEPT !.effects.waste_not = 4 + bonus]
      [] a = "WasteNot2" -> [t EXCEPT !.effects.waste_not = 8 + bonus]
      [] a = "Manipulation" -> [t EXCEPT !.effects.manipulation = 8 + bonus]
      [] a = "MasterMend" ->
           [t EXCEPT !.durability = Min(s.max_durability, @ + 30)]
      [] a = "ByregotsBlessing" -> [t EXCEPT !.effects.inner_quiet = 0]
      [] a = "TricksOfTheTrade" -> [t EXCEPT !.cp = Min(s.max_cp, @ + 20)]
      [] OTHER -> t

\* the effect phase of an action that leaves the craft in progress
AfterEffects(n, a, condition, s) ==
    Triggered(Ticked(n, a, s), a, IF condition = "Pliant" THEN 2 ELSE 0, s)

\* lines 122-131 in the other order: failure is checked before completion
OutcomeFailureFirst(n, a, condition, s) ==
    IF n.durability <= 0 THEN Failed(n.missing_progress)
    ELSE IF n.missing_progress = 0 THEN Completed(n.missing_quality)
    ELSE AfterEffects(n, a, condition, s)

\* use_action, lines 122-164: completion is checked before failure
Outcome(n, a, condition, s) ==
    IF n.missing_progress = 0 THEN Completed(n.missing_quality)
    ELSE IF n.durability <= 0 THEN Failed(n.missing_progress)
    ELSE AfterEffects(n, a, condition, s)

\* InProgress::use_action
use_action(st, a, condition, s) ==
    IF ~can_use_action(st, a, condition) THEN Invalid
    ELSE Outcome(AfterIncrease(st, a, condition, s), a, condition, s)

\* use_actions without line 28: a state that is not in progress is kept,
\* not turned into Invalid
RECURSIVE use_actions_keeping(_, _, _, _)
use_actions_keeping(st, actions, condition, s) ==
    IF actions = <<>> \/ ~IsInProgress(st) THEN st
    ELSE use_actions_keeping(use_action(st, Head(actions), condition, s),
                             Tail(actions), condition, s)

\* State::use_actions
RECURSIVE use_actions(_, _, _, _)
use_actions(st, actions, condition, s) ==
    IF actions = <<>> THEN st
    ELSE IF IsInProgress(st)
    THEN use_actions(use_action(st, Head(actions), condition, s),
                     Tail(actions), condition, s)
    ELSE Invalid

(***************************************************************************)
(* The action classes of the solvers.                                      *)
(***************************************************************************)
PROGRESS_ACTIONS == {"BasicSynthesis", "CarefulSynthesis", "PrudentSynthesis",
                     "Groundwork", "MuscleMemory", "Veneration"}

QUALITY_ACTIONS == {"BasicTouch", "StandardTouch", "AdvancedTouch",
                    "ByregotsBlessing", "PrudentTouch", "PreparatoryTouch",
                    "TrainedFinesse", "Reflect", "Innovation", "GreatStrides"}

MIXED_ACTIONS == {"DelicateSynthesis"}

DURABILITY_ACTIONS == {"MasterMend", "Manipulation", "WasteNot", "WasteNot2"}

\* macro_solver.rs: const SEARCH_ACTIONS
SEARCH_ACTIONS ==
    PROGRESS_ACTIONS \cup QUALITY_ACTIONS \cup MIXED_ACTIONS
        \cup DURABILITY_ACTIONS

\* the members of a mask in iteration order
OrderedActions(mask) == SelectSeq(ActionOrder, LAMBDA a : a \in mask)

(***************************************************************************)
(* Finish solver: can the progress target still be reached?                *)
(***************************************************************************)
FinishActions(s) ==
    OrderedActions((PROGRESS_ACTIONS \cup DURABILITY_ACTIONS)
                       \cap s.allowed_actions)

\* FinishSolver::get_finish_sequence: the first finishing sequence in
\* depth-first action order, <<"None">> when there is none
RECURSIVE FinishFrom(_, _, _, _)
FinishJoin(st, s, acts, i, rest) ==
    IF rest # <<"None">> THEN <<acts[i]>> \o rest
    ELSE FinishFrom(st, s, acts, i + 1)

FinishVia(st, s, acts, i, n) ==
    IF n.tag = "Completed" THEN <<acts[i]>>
    ELSE IF IsInProgress(n)
    THEN FinishJoin(st, s, acts, i, FinishFrom(n, s, acts, 1))
    ELSE FinishFrom(st, s, acts, i + 1)

FinishFrom(st, s, acts, i) ==
    IF i > Len(acts) THEN <<"None">>
    ELSE FinishVia(st, s, acts, i, use_action(st, acts[i], "Normal", s))

get_finish_sequence(st, s) == FinishFrom(st, s, FinishActions(s), 1)

\* FinishSolver::can_finish
can_finish(st, s) == get_finish_sequence(st, s) # <<"None">>

(***************************************************************************)
(* raphael-solver/src/quality_upper_bound_solver/state.rs                  *)
(* An Option is a sequence: <<>> is None, <<x>> is Some(x).                *)
(***************************************************************************)
\* the SimulationState carrying an InProgress state (combo is an effect)
ToSimulationState(st, s) ==
    [cp |-> st.cp, durability |-> st.durability,
     progress |-> s.max_progress - st.missing_progress,
     quality |-> s.max_quality - st.missing_quality,
     unreliable_quality |-> 0,
     effects |-> [inner_quiet |-> st.effects.inner_quiet,
                  waste_not |-> st.effects.waste_not,
                  innovation |-> st.effects.innovation,
                  veneration |-> st.effects.veneration,
                  great_strides |-> st.effects.great_strides,
                  muscle_memory |-> st.effects.muscle_memory,
                  manipulation |-> st.effects.manipulation,
                  trained_perfection_available |-> FALSE,
                  trained_perfection_active |-> FALSE,
                  combo |-> st.combo]]

\* u32::div_ceil
DivCeil(a, b) == (a + b - 1) \div b

\* the inner reduction with the unreliable quality rounded down
from_simulation_state_inner_floor(state, s, durability_cost_) ==
    LET used_durability_cost ==
            ((s.max_durability - state.durability) \div 5) * durability_cost_
    IN  IF used_durability_cost > state.cp THEN <<>>
        ELSE <<[cp |-> state.cp - used_durability_cost,
                compressed_unreliable_quality |->
                    (state.unreliable_quality \div (2 * s.base_quality)) % 256,
                effects |-> [state.effects EXCEPT !.great_strides =
                                 IF @ # 0 THEN 3 ELSE 0]]>>

\* ReducedState::from_simulation_state_inner
from_simulation_state_inner(state, s, durability_cost_) ==
    LET used_durability_cost ==
            ((s.max_durability - state.durability) \div 5) * durability_cost_
    IN  IF used_durability_cost > state.cp THEN <<>>
        ELSE <<[cp |-> state.cp - used_durability_cost,
                compressed_unreliable_quality |->
                    DivCeil(state.unreliable_quality, 2 * s.base_quality) % 256,
                effects |-> [state.effects EXCEPT !.great_strides =
                                 IF @ # 0 THEN 3 ELSE 0]]>>

\* the refund without line 24: the manipulation effect is refunded as CP
\* and left active
RefundedKeepingManipulation(state, s, durability_cost_, tp) ==
    [state EXCEPT
        !.effects = [@ EXCEPT
            !.trained_perfection_active = IF tp THEN FALSE ELSE @,
            !.trained_perfection_available = IF tp THEN FALSE ELSE @],
        !.cp = @ + (state.durability \div 5 + 1 + state.effects.manipulation
                      + (IF tp THEN 4 ELSE 0)) * durability_cost_,
        !.durability = s.max_durability]

\* the refund with line 33 restoring the durability to 5 less than
\* max_durability
RefundedShortOfFull(state, s, durability_cost_, tp) ==
    [state EXCEPT
        !.effects = [@ EXCEPT
            !.manipulation = 0,
            !.trained_perfection_active = IF tp THEN FALSE ELSE @,
            !.trained_perfection_available = IF tp THEN FALSE ELSE @],
        !.cp = @ + (state.durability \div 5 + 1 + state.effects.manipulation
                      + (IF tp THEN 4 ELSE 0)) * durability_cost_,
        !.durability = s.max_durability - 5]

\* the refund with 4 units for each trained perfection flag that is set
RefundedPerFlag(state, s, durability_cost_, tp) ==
    [state EXCEPT
        !.effects = [@ EXCEPT
            !.manipulation = 0,
            !.trained_perfection_active = IF tp THEN FALSE ELSE @,
            !.trained_perfection_available = IF tp THEN FALSE ELSE @],
        !.cp = @ + (state.durability \div 5 + 1 + state.effects.manipulation
                      + (IF state.effects.trained_perfection_active
                         THEN 4 ELSE 0)
                      + (IF state.effects.trained_perfection_available
                         THEN 4 ELSE 0)) * durability_cost_,
        !.durability = s.max_durability]

\* the refund without the + 1 of line 21
RefundedWithoutSpare(state, s, durability_cost_, tp) ==
    [state EXCEPT
        !.effects = [@ EXCEPT
            !.manipulation = 0,
            !.trained_perfection_active = IF tp THEN FALSE ELSE @,
            !.trained_perfection_available = IF tp THEN FALSE ELSE @],
        !.cp = @ + (state.durability \div 5 + state.effects.manipulation
                      + (IF tp THEN 4 ELSE 0)) * durability_cost_,
        !.durability = s.max_durability]

\* from_simulation_state, lines 21-33: the state handed to the inner
\* reduction
Refunded(state, s, durability_cost_, tp) ==
    [state EXCEPT
        !.effects = [@ EXCEPT
            !.manipulation = 0,
            !.trained_perfection_active = IF tp THEN FALSE ELSE @,
            !.trained_perfection_available = IF tp THEN FALSE ELSE @],
        !.cp = @ + (state.durability \div 5 + 1 + state.effects.manipulation
                      + (IF tp THEN 4 ELSE 0)) * durability_cost_,
        !.durability = s.max_durability]

\* ReducedState::from_simulation_state
from_simulation_state(state, s, durability_cost_) ==
    from_simulation_state_inner(
        Refunded(state, s, durability_cost_,
                 state.effects.trained_perfection_active
                     \/ state.effects.trained_perfection_available),
        s, durability_cost_)[1]

\* ReducedState::to_simulation_state
to_simulation_state(r, s) ==
    [durability |-> s.max_durability, cp |-> r.cp, progress |-> 0,
     quality |-> 0,
     unreliable_quality |->
         r.compressed_unreliable_quality * (2 * s.base_quality),
     effects |-> r.effects]

\* ReducedState::is_final
is_final(r, durability_cost_) == r.cp < 2 * durability_cost_

\* the InProgress state a SimulationState stands for
ToInProgress(state, s) ==
    [tag |-> "InProgress", cp |-> state.cp, durability |-> state.durability,
     missing_progress |-> SatSub(s.max_progress, state.progress),
     missing_quality |-> SatSub(s.max_quality, state.quality),
     effects |-> [inner_quiet |-> state.effects.inner_quiet,
                  waste_not |-> state.effects.waste_not,
                  innovation |-> state.effects.innovation,
                  veneration |-> state.effects.veneration,
                  great_strides |-> state.effects.great_strides,
                  muscle_memory |-> state.effects.muscle_memory,
                  manipulation |-> state.effects.manipulation],
     combo |-> state.effects.combo]

\* the SimulationState after an action: m is the InProgress record after it,
\* pi and qi the progress and quality it gained
Advanced(state, m, pi, qi) ==
    [cp |-> m.cp, durability |-> m.durability,
     progress |-> state.progress + pi, quality |-> state.quality + qi,
     unreliable_quality |-> state.unreliable_quality,
     effects |-> [state.effects EXCEPT
                     !.inner_quiet = m.effects.inner_quiet,
                     !.waste_not = m.effects.waste_not,
                     !.innovation = m.effects.innovation,
                     !.veneration = m.effects.veneration,
                     !.great_strides = m.effects.great_strides,
                     !.muscle_memory = m.effects.muscle_memory,
                     !.manipulation = m.effects.manipulation,
                     !.combo = m.combo]]

\* a final state (progress target reached or durability used up) is
\* returned before the effect phase
EffectPhase(n, a, s) ==
    IF n.missing_progress = 0 \/ n.durability <= 0 THEN n
    ELSE AfterEffects(n, a, "Normal", s)

UseOn(state, ip, a, s) ==
    IF ~can_use_action(ip, a, "Normal") THEN <<>>
    ELSE <<Advanced(state,
                    EffectPhase(AfterIncrease(ip, a, "Normal", s), a, s),
                    progress_increase(a, s, ip.effects, "Normal"),
                    quality_increase(a, s, ip.effects, "Normal"))>>

\* use_action_combo on a single action: Err is <<>>, Ok(state) is <<state>>
use_action_combo(s, state, a) == UseOn(state, ToInProgress(state, s), a, s)

Reduced(state, solver_state) ==
    IF solver_state = <<>> THEN <<>>
    ELSE <<<<solver_state[1], state.progress, state.quality>>>>

ReducedResult(res, s, durability_cost_) ==
    IF res = <<>> THEN <<>>
    ELSE Reduced(res[1],
                 from_simulation_state_inner(res[1], s, durability_cost_))

\* ReducedState::use_action without Manipulation in the match of line 88
reduced_use_action_manipulating(r, a, s, durability_cost_) ==
    IF a \in {"MasterMend", "ImmaculateMend"} THEN <<>>
    ELSE ReducedResult(use_action_combo(s, to_simulation_state(r, s), a),
                       s, durability_cost_)

\* ReducedState::use_action: None is <<>>,
\* Some((state, progress, quality)) is <<<<state, progress, quality>>>>
reduced_use_action(r, a, s, durability_cost_) ==
    IF a \in {"MasterMend", "ImmaculateMend", "Manipulation"} THEN <<>>
    ELSE ReducedResult(use_action_combo(s, to_simulation_state(r, s), a),
                       s, durability_cost_)

(***************************************************************************)
(* Quality upper bound solver.                                             *)
(***************************************************************************)
\* CP price of 5 durability: the cheapest restoration the settings allow
DurabilityCost(s) ==
    Min(IF "MasterMend" \in s.allowed_actions
        THEN base_cp_cost("MasterMend") \div 6 ELSE 100,
        IF "Manipulation" \in s.allowed_actions
        THEN base_cp_cost("Manipulation") \div 8 ELSE 100)

\* the non-dominated (progress, quality) pairs of a set
ParetoFront(S) ==
    {e \in S : ~\E f \in S : f # e /\ f[1] >= e[1] /\ f[2] >= e[2]}

\* the successors of a reduced state: (state, progress, quality) triples
ReducedSteps(r, s, dc) ==
    {x[1] : x \in {reduced_use_action(r, a, s, dc) :
                       a \in SEARCH_ACTIONS \cap s.allowed_actions} \ {<<>>}}

\* the successors the bound of a reduced state is computed from: a final
\* reduced state is not expanded
StepsFrom(r, s, dc) == IF is_final(r, dc) THEN {} ELSE ReducedSteps(r, s, dc)

\* the Pareto frontier of (progress, quality) contributions reachable from
\* a reduced state whose successors, steps, are solved in table; a final
\* reduced state contributes nothing
FrontierOf(steps, table, s) ==
    ParetoFront({<<0, 0>>} \cup UNION {
        {<<Min(s.max_progress, t[2] + e[1]),
           Min(s.max_quality, t[3] + e[2])>> : e \in table[t[1]]} :
        t \in steps})

\* the reduced states reachable from work that table does not hold yet,
\* each with its successors
RECURSIVE Unsolved(_, _, _, _, _)
Explored(work, edges, table, s, dc) ==
    Unsolved((UNION {{t[1] : t \in edges[r]} : r \in work}
                 \ DOMAIN edges) \ DOMAIN table,
             edges, table, s, dc)

Unsolved(work, edges, table, s, dc) ==
    IF work = {} THEN edges
    ELSE Explored(work, edges @@ [r \in work |-> StepsFrom(r, s, dc)],
                  table, s, dc)

SetMax(S) == CHOOSE x \in S : \A y \in S : y <= x

\* solve the states of rem bottom-up: a state is solved once all of its
\* successors are
RECURSIVE SolveAll(_, _, _, _)
SolveReady(table, edges, rem, ready, s) ==
    SolveAll(table @@ [r \in ready |-> FrontierOf(edges[r], table, s)],
             edges, rem \ ready, s)

SolveAll(table, edges, rem, s) ==
    IF rem = {} THEN table
    ELSE SolveReady(table, edges, rem,
                    {r \in rem : \A t \in edges[r] : t[1] \in DOMAIN table},
                    s)

SolveEdges(table, edges, s) == SolveAll(table, edges, DOMAIN edges, s)

\* the reduced state a simulator state is looked up under
ReducedKey(st, s) ==
    from_simulation_state(ToSimulationState(st, s), s, DurabilityCost(s))

SolvedFor(table, r, s, dc) ==
    IF r \in DOMAIN table THEN table
    ELSE SolveEdges(table, Unsolved({r}, <<>>, table, s, dc), s)

\* the solved-states table after a query for st
Solved(table, st, s) ==
    SolvedFor(table, ReducedKey(st, s), s, DurabilityCost(s))

\* the bound without the quality the state already has
BoundOfFrontierOnly(qs, st, s) ==
    IF qs = {} THEN 0
    ELSE Min(s.max_quality, SetMax(qs))

\* the bound without the cap at the quality target
BoundOfUncapped(qs, st, s) ==
    IF qs = {} THEN 0
    ELSE (s.max_quality - st.missing_quality) + SetMax(qs)

BoundOf(qs, st, s) ==
    IF qs = {} THEN 0
    ELSE Min(s.max_quality,
             (s.max_quality - st.missing_quality) + SetMax(qs))

\* UpperBoundSolver::quality_upper_bound, on a table that holds st
quality_upper_bound(table, st, s) ==
    BoundOf({e[2] : e \in {f \in table[ReducedKey(st, s)] :
                               f[1] >= st.missing_progress}}, st, s)

(***************************************************************************)
(* solvers/src/macro_solver.rs                                             *)
(***************************************************************************)
\* hash_key
hash_key(st) == [st EXCEPT !.missing_quality = 0]

\* get_actions without the final rev(): leaf-to-root order
RECURSIVE get_actions_unreversed(_, _)
get_actions_unreversed(tr, index) ==
    IF tr[index + 1] = <<>> THEN <<>>
    ELSE <<tr[index + 1][1].action>>
             \o get_actions_unreversed(tr, tr[index + 1][1].parent)

\* get_actions: the actions from the root to traces[index], in order
RECURSIVE get_actions(_, _)
get_actions(tr, index) ==
    IF tr[index + 1] = <<>> THEN <<>>
    ELSE get_actions(tr, tr[index + 1][1].parent)
             \o <<tr[index + 1][1].action>>

\* a queue that hands out an entry of the least bound
TopLeast(queue) ==
    {e \in queue : \A f \in queue :
        \/ f.bound > e.bound
        \/ f.bound = e.bound /\ f.backtrack_index <= e.backtrack_index}

\* RadixHeapMap::pop: an entry of the greatest bound; among those the heap
\* hands out the one pushed last (its buckets are vectors popped at the end)
Top(queue) ==
    {e \in queue : \A f \in queue :
        \/ f.bound < e.bound
        \/ f.bound = e.bound /\ f.backtrack_index <= e.backtrack_index}

NoNode == [bound |-> 0, backtrack_index |-> 0]

NoStep == [kind |-> "none"]

\* the set-up of do_solve, lines 54-82, on the solved table
Seed(table) ==
    /\ bound_table' = table
    /\ visited_states' = (hash_key(input) :> input.missing_quality)
    /\ search_queue' =
           {[bound |-> quality_upper_bound(table, input, settings),
             state |-> input, backtrack_index |-> 0]}
    /\ traces' = << <<>> >>
    /\ pc' = "loop"
    /\ UNCHANGED result

\* solve, lines 33-44, and the set-up of do_solve
Start ==
    /\ pc = "solve"
    /\ IF IsInProgress(input) /\ can_finish(input, settings)
       THEN Seed(Solved(bound_table, input, settings))
       ELSE /\ result' = <<>>
            /\ pc' = "done"
            /\ UNCHANGED <<bound_table, visited_states, search_queue, traces>>
    /\ best_quality' = 0
    /\ best_state' = <<>>
    /\ best_trace' = 0
    /\ step' = [kind |-> "start"]
    /\ UNCHANGED <<settings, simvars, input, node, todo, pops>>

\* the cap of the counter of while loop iterations
MaxPops == 200

\* the while loop reading the top of the queue without removing an entry
\* it skips
PopPeek ==
    /\ pc = "loop"
    /\ pops < MaxPops
    /\ pops' = pops + 1
    /\ \E e \in Top(search_queue) :
          /\ node' = e
          /\ IF best_quality = settings.max_quality \/ e.bound <= best_quality
             THEN /\ pc' = "loop"
                  /\ todo' = <<>>
                  /\ step' = [kind |-> "skip", bound |-> e.bound]
                  /\ search_queue' = search_queue
             ELSE /\ pc' = "expand"
                  /\ todo' = OrderedActions(SEARCH_ACTIONS
                                                \cap settings.allowed_actions)
                  /\ step' = [kind |-> "pop", bound |-> e.bound]
                  /\ search_queue' = search_queue \ {e}
    /\ UNCHANGED <<settings, simvars, input, bound_table, visited_states,
                   traces, best_quality, best_state, best_trace, result>>

\* the while loop without lines 85-87: every node popped is expanded
PopAlways ==
    /\ pc = "loop"
    /\ pops < MaxPops
    /\ pops' = pops + 1
    /\ \E e \in Top(search_queue) :
          /\ search_queue' = search_queue \ {e}
          /\ node' = e
          /\ LET acts == OrderedActions(SEARCH_ACTIONS
                                            \cap settings.allowed_actions)
             IN  /\ pc' = IF acts = <<>> THEN "loop" ELSE "expand"
                 /\ todo' = acts
                 /\ step' = [kind |-> "pop", bound |-> e.bound]
    /\ UNCHANGED <<settings, simvars, input, bound_table, visited_states,
                   traces, best_quality, best_state, best_trace, result>>

\* the pop with every allowed action iterated, whether or not it is one of
\* SEARCH_ACTIONS
PopAllowed ==
    /\ pc = "loop"
    /\ pops < MaxPops
    /\ pops' = pops + 1
    /\ \E e \in Top(search_queue) :
          /\ search_queue' = search_queue \ {e}
          /\ node' = e
          /\ IF best_quality = settings.max_quality \/ e.bound <= best_quality
             THEN /\ pc' = "loop"
                  /\ todo' = <<>>
                  /\ step' = [kind |-> "skip", bound |-> e.bound]
             ELSE LET acts == OrderedActions(settings.allowed_actions)
                  IN  /\ pc' = IF acts = <<>> THEN "loop" ELSE "expand"
                      /\ todo' = acts
                      /\ step' = [kind |-> "pop", bound |-> e.bound]
    /\ UNCHANGED <<settings, simvars, input, bound_table, visited_states,
                   traces, best_quality, best_state, best_trace, result>>

\* one iteration of the while loop up to the for loop, lines 84-90
Pop ==
    /\ pc = "loop"
    /\ pops < MaxPops
    /\ pops' = pops + 1
    /\ \E e \in Top(search_queue) :
          /\ search_queue' = search_queue \ {e}
          /\ node' = e
          /\ IF best_quality = settings.max_quality \/ e.bound <= best_quality
             THEN /\ pc' = "loop"
                  /\ todo' = <<>>
                  /\ step' = [kind |-> "skip", bound |-> e.bound]
             ELSE LET acts == OrderedActions(SEARCH_ACTIONS
                                                \cap settings.allowed_actions)
                  IN  /\ pc' = IF acts = <<>> THEN "loop" ELSE "expand"
                      /\ todo' = acts
                      /\ step' = [kind |-> "pop", bound |-> e.bound]
    /\ UNCHANGED <<settings, simvars, input, bound_table, visited_states,
                   traces, best_quality, best_state, best_trace, result>>

\* the verdict with the test of line 104 inverted
ChildVerdictInverted(child, seen, finishable, quality_bound, best) ==
    IF ~IsInProgress(child) THEN "final"
    ELSE IF seen THEN "visited"
    ELSE IF finishable THEN "unfinishable"
    ELSE IF quality_bound <= best THEN "bounded"
    ELSE "push"

\* the verdict without lines 103-107: a child is not asked for a way to
\* finish
ChildVerdictNoFinish(child, seen, finishable, quality_bound, best) ==
    IF ~IsInProgress(child) THEN "final"
    ELSE IF seen THEN "visited"
    ELSE IF quality_bound <= best THEN "bounded"
    ELSE "push"

\* what one pass of the for loop body does with the child state
\* (lines 92-112): the reason it is skipped, or "push"
ChildVerdict(child, seen, finishable, quality_bound, best) ==
    IF ~IsInProgress(child) THEN "final"
    ELSE IF seen THEN "visited"
    ELSE IF ~finishable THEN "unfinishable"
    ELSE IF quality_bound <= best THEN "bounded"
    ELSE "push"

\* lines 114-134 with the root as the parent of every trace (index 0 for
\* node.backtrack_index in line 125)
PushFromRoot(action, child, verdict, quality_bound, quality) ==
    /\ step' = [kind |-> "expand", action |-> action,
                parent |-> node, child |-> child, verdict |-> verdict,
                bound |-> IF verdict \in {"bounded", "push"}
                          THEN quality_bound ELSE 0]
    /\ IF verdict = "push"
       THEN /\ visited_states' =
                   (hash_key(child) :> child.missing_quality)
                       @@ visited_states
            /\ search_queue' = search_queue \cup
                   {[bound |-> quality_bound, state |-> child,
                     backtrack_index |-> Len(traces)]}
            /\ traces' = Append(traces,
                   <<[parent |-> 0, action |-> action]>>)
            /\ IF quality > best_quality
               THEN /\ best_quality' = quality
                    /\ best_state' = <<child>>
                    /\ best_trace' = Len(traces)
               ELSE UNCHANGED <<best_quality, best_state, best_trace>>
       ELSE UNCHANGED <<visited_states, search_queue, traces,
                        best_quality, best_state, best_trace>>
    /\ pc' = IF verdict = "push" /\ quality_bound > node.bound
             THEN "panic"
             ELSE IF Len(todo) = 1 THEN "loop" ELSE "expand"

\* lines 114-134 for a child that passed the checks, or nothing
Push(action, child, verdict, quality_bound, quality) ==
    /\ step' = [kind |-> "expand", action |-> action,
                parent |-> node, child |-> child, verdict |-> verdict,
                bound |-> IF verdict \in {"bounded", "push"}
                          THEN quality_bound ELSE 0]
    /\ IF verdict = "push"
       THEN /\ visited_states' =
                   (hash_key(child) :> child.missing_quality)
                       @@ visited_states
            /\ search_queue' = search_queue \cup
                   {[bound |-> quality_bound, state |-> child,
                     backtrack_index |-> Len(traces)]}
            /\ traces' = Append(traces,
                   <<[parent |-> node.backtrack_index,
                      action |-> action]>>)
            /\ IF quality > best_quality
               THEN /\ best_quality' = quality
                    /\ best_state' = <<child>>
                    /\ best_trace' = Len(traces)
               ELSE UNCHANGED <<best_quality, best_state, best_trace>>
       ELSE UNCHANGED <<visited_states, search_queue, traces,
                        best_quality, best_state, best_trace>>
    \* RadixHeapMap::push panics on a key above the last popped key
    /\ pc' = IF verdict = "push" /\ quality_bound > node.bound
             THEN "panic"
             ELSE IF Len(todo) = 1 THEN "loop" ELSE "expand"

Bounded(action, child, seen, finishable, table, quality_bound) ==
    /\ bound_table' = table
    /\ Push(action, child,
            ChildVerdict(child, seen, finishable, quality_bound,
                         best_quality),
            quality_bound, settings.max_quality - child.missing_quality)

Queried(action, child, seen, finishable, table) ==
    Bounded(action, child, seen, finishable, table,
            quality_upper_bound(table, child, settings))

Checked(action, child, seen, finishable) ==
    Queried(action, child, seen, finishable,
            IF IsInProgress(child) /\ ~seen /\ finishable
            THEN Solved(bound_table, child, settings)
            ELSE bound_table)

\* lines 96-101 with < for the <= of line 98: a child is not skipped when
\* the map holds for its key exactly its missing quality
VisitStrict(action, child, key) ==
    Checked(action, child,
            key \in DOMAIN visited_states
                /\ visited_states[key] < child.missing_quality,
            can_finish(child, settings))

\* lines 96-101: the child is skipped when the map holds for its key a
\* missing quality that is not more than its own
Visit(action, child, key) ==
    Checked(action, child,
            key \in DOMAIN visited_states
                /\ visited_states[key] <= child.missing_quality,
            can_finish(child, settings))

Child(action, child) == Visit(action, child, hash_key(child))

\* one pass of the for loop body, lines 88-135
Expand ==
    /\ pc = "expand"
    /\ Child(Head(todo),
             use_action(node.state, Head(todo), "Normal", settings))
    /\ todo' = Tail(todo)
    /\ UNCHANGED <<settings, simvars, input, node, pops, result>>

\* solve returning the finish sequence of the initial state whatever the
\* search found
FinishFromInput ==
    /\ pc = "loop"
    /\ search_queue = {}
    /\ result' = <<get_finish_sequence(input, settings)>>
    /\ pc' = "done"
    /\ step' = [kind |-> "finish"]
    /\ UNCHANGED <<settings, simvars, input, bound_table, visited_states,
                   search_queue, traces, best_quality, best_state,
                   best_trace, node, todo, pops>>

\* solve handing on the None of do_solve instead of the finish sequence
FinishNoFallback ==
    /\ pc = "loop"
    /\ search_queue = {}
    /\ result' = IF best_state # <<>>
                 THEN <<get_actions(traces, best_trace)
                          \o get_finish_sequence(best_state[1], settings)>>
                 ELSE <<>>
    /\ pc' = "done"
    /\ step' = [kind |-> "finish"]
    /\ UNCHANGED <<settings, simvars, input, bound_table, visited_states,
                   search_queue, traces, best_quality, best_state,
                   best_trace, node, todo, pops>>

\* the end of do_solve, lines 139-158, and of solve, lines 45-48
Finish ==
    /\ pc = "loop"
    /\ search_queue = {}
    /\ result' = IF best_state # <<>>
                 THEN <<get_actions(traces, best_trace)
                          \o get_finish_sequence(best_state[1], settings)>>
                 ELSE <<get_finish_sequence(input, settings)>>
    /\ pc' = "done"
    /\ step' = [kind |-> "finish"]
    /\ UNCHANGED <<settings, simvars, input, bound_table, visited_states,
                   search_queue, traces, best_quality, best_state,
                   best_trace, node, todo, pops>>

(***************************************************************************)
(* The solver on bounded inputs: a craft of a few steps, then solve, then  *)
(* any play of the allowed actions from the state solve was given.         *)
(***************************************************************************)
MaxPrefix == 1

\* a Settings record of base progress 100, base quality 100, job level 90
Settings(cp, dur, prog, qual, allowed) ==
    [max_cp |-> cp, max_durability |-> dur, max_progress |-> prog,
     max_quality |-> qual, base_progress |-> 100, base_quality |-> 100,
     job_level |-> 90, allowed_actions |-> allowed]

\* the Settings of test_08: every action of the model is allowed
test_08_settings ==
    [max_cp |-> 32, max_durability |-> 10, max_progress |-> 10000,
     max_quality |-> 20000, base_progress |-> 10000, base_quality |-> 10000,
     job_level |-> 90, allowed_actions |-> Actions]

SolveSettings ==
    {test_08_settings,
     Settings(60, 20, 200, 1000,
              {"BasicSynthesis", "CarefulSynthesis", "DelicateSynthesis",
               "BasicTouch", "PrudentTouch", "Reflect", "Innovation",
               "GreatStrides", "Manipulation"}),
     Settings(100, 20, 300, 1000,
              {"BasicSynthesis", "MuscleMemory", "Veneration", "BasicTouch",
               "Innovation", "MasterMend", "Manipulation"}),
     Settings(40, 20, 120, 150,
              {"BasicSynthesis", "CarefulSynthesis", "BasicTouch",
               "PrudentTouch", "Manipulation"}),
     Settings(96, 40, 100, 1000,
              {"BasicSynthesis", "BasicTouch", "StandardTouch",
               "AdvancedTouch"}),
     Settings(40, 20, 120, 100,
              {"BasicSynthesis", "BasicTouch", "PrudentTouch"})}

\* the states a craft of at most n allowed actions can be in
RECURSIVE CraftStates(_, _)
CraftStates(s, n) ==
    IF n = 0 THEN {NewInProgress(s)}
    ELSE LET before == CraftStates(s, n - 1)
         IN  before \cup {use_action(st, a, "Normal", s) :
                              st \in {x \in before : IsInProgress(x)},
                              a \in s.allowed_actions}

NoCall == [action |-> "none"]

Init ==
    /\ settings \in SolveSettings
    /\ input \in CraftStates(settings, MaxPrefix)
    /\ sim = input
    /\ last = NoCall
    /\ calls = 0
    /\ pc = "solve"
    /\ bound_table = <<>>
    /\ visited_states = <<>>
    /\ search_queue = {}
    /\ traces = <<>>
    /\ best_quality = 0
    /\ best_state = <<>>
    /\ best_trace = 0
    /\ node = NoNode
    /\ todo = <<>>
    /\ step = NoStep
    /\ pops = 0
    /\ result = <<>>

\* after solve has returned: one more allowed action of a play that
\* started at the state solve was given
Play ==
    /\ pc = "done"
    /\ IsInProgress(sim)
    /\ \E a \in settings.allowed_actions :
          /\ sim' = use_action(sim, a, "Normal", settings)
          /\ last' = [action |-> a, condition |-> "Normal", before |-> sim]
    /\ UNCHANGED <<settings, calls, solvervars>>

Next == Start \/ Pop \/ Expand \/ Finish \/ Play

Spec == Init /\ [][Next]_vars

(***************************************************************************)
(* The simulator alone: from State::new, or from a craft six actions in,   *)
(* any action under any condition.                                         *)
(***************************************************************************)
MaxCalls == 2

\* the first craft is of a job level below 11, where inner quiet is not
\* gained
SimSettings ==
    {[Settings(50, 20, 250, 300, Actions) EXCEPT !.job_level = 10],
     Settings(120, 15, 400, 200, Actions)}

\* a craft late in its course: six actions from State::new have brought
\* inner quiet to 9 and left a manipulation effect active
LateSettings == Settings(340, 100, 400, 200, Actions)

LateState ==
    use_actions(NewInProgress(LateSettings),
                <<"Reflect", "PreparatoryTouch", "PreparatoryTouch",
                  "PreparatoryTouch", "BasicTouch", "Manipulation">>,
                "Normal", LateSettings)

SimInit ==
    /\ \/ /\ settings \in SimSettings
          /\ sim = NewInProgress(settings)
       \/ /\ settings = LateSettings
          /\ sim = LateState
    /\ last = NoCall
    /\ calls = 0
    /\ pc = "sim"
    /\ input = sim
    /\ bound_table = <<>>
    /\ visited_states = <<>>
    /\ search_queue = {}
    /\ traces = <<>>
    /\ best_quality = 0
    /\ best_state = <<>>
    /\ best_trace = 0
    /\ node = NoNode
    /\ todo = <<>>
    /\ step = NoStep
    /\ pops = 0
    /\ result = <<>>

\* one use_action call on the state the craft is in
UseAction ==
    /\ pc = "sim"
    /\ calls < MaxCalls
    /\ IsInProgress(sim)
    /\ \E a \in Actions, condition \in Conditions :
          /\ sim' = use_action(sim, a, condition, settings)
          /\ last' = [action |-> a, condition |-> condition, before |-> sim]
    /\ calls' = calls + 1
    /\ UNCHANGED <<settings, solvervars>>

SimNext == UseAction

SpecSim == SimInit /\ [][SimNext]_vars

(***************************************************************************)
(* State::use_actions on a list of actions: todo is the list, input the    *)
(* state it is called on, sim the state it returns.                        *)
(***************************************************************************)
MaxMacro == 3

MacroActions == {"BasicSynthesis", "BasicTouch", "Observe", "Manipulation"}

MacroSettings == Settings(40, 20, 200, 300, MacroActions)

\* the lists of at most n actions
RECURSIVE Macros(_)
Macros(n) ==
    IF n = 0 THEN {<<>>}
    ELSE LET shorter == Macros(n - 1)
         IN  shorter \cup {Append(m, a) : m \in shorter, a \in MacroActions}

MacroInit ==
    /\ settings = MacroSettings
    /\ input \in CraftStates(settings, MaxPrefix)
    /\ todo \in Macros(MaxMacro)
    /\ sim = input
    /\ last = NoCall
    /\ calls = 0
    /\ pc = "macro"
    /\ bound_table = <<>>
    /\ visited_states = <<>>
    /\ search_queue = {}
    /\ traces = <<>>
    /\ best_quality = 0
    /\ best_state = <<>>
    /\ best_trace = 0
    /\ node = NoNode
    /\ step = NoStep
    /\ pops = 0
    /\ result = <<>>

\* the call of use_actions
UseActions ==
    /\ pc = "macro"
    /\ sim' = use_actions(input, todo, "Normal", settings)
    /\ pc' = "returned"
    /\ UNCHANGED <<settings, last, calls, input, bound_table, visited_states,
                   search_queue, traces, best_quality, best_state, best_trace,
                   node, todo, step, pops, result>>

MacroNext == UseActions

SpecMacro == MacroInit /\ [][MacroNext]_vars

(***************************************************************************)
(* The reduction of the quality upper bound solver on its own: input is a  *)
(* SimulationState, step holds the durability cost of the call, node the   *)
(* ReducedState it returns, result what is then computed from node.        *)
(***************************************************************************)
ReduceSettings == {Settings(60, 20, 200, 1000, Actions)}

\* the durability costs the reduction is called with
DurabilityCosts == {1, 12, 100}

\* the actions ReducedState::use_action is called with
ReducedActions == Actions \cup {"ImmaculateMend"}

\* random_state and random_effects, over a few values of each field
random_state(s) ==
    {[cp |-> c, durability |-> d, progress |-> 0, quality |-> 0,
      unreliable_quality |-> u,
      effects |-> [inner_quiet |-> iq, waste_not |-> 0, innovation |-> 0,
                   veneration |-> 0, great_strides |-> gs,
                   muscle_memory |-> 0, manipulation |-> m,
                   trained_perfection_available |-> tpa,
                   trained_perfection_active |-> tpb,
                   combo |-> NoCombo]] :
        c \in {0, 7, s.max_cp},
        d \in {5 * k : k \in 1..(s.max_durability \div 5)},
        u \in {0, 1, 200, 399},
        iq \in {0, 10},
        gs \in {0, 1, 3},
        m \in {0, 3, 8},
        tpa \in BOOLEAN,
        tpb \in BOOLEAN}

ReduceInit ==
    /\ settings \in ReduceSettings
    /\ input \in random_state(settings)
    /\ \E dc \in DurabilityCosts :
          step = [kind |-> "query", durability_cost |-> dc]
    /\ pc = "reduce"
    /\ node = NoNode
    /\ result = <<>>
    /\ sim = Invalid
    /\ last = NoCall
    /\ calls = 0
    /\ bound_table = <<>>
    /\ visited_states = <<>>
    /\ search_queue = {}
    /\ traces = <<>>
    /\ best_quality = 0
    /\ best_state = <<>>
    /\ best_trace = 0
    /\ todo = <<>>
    /\ pops = 0

\* the call of ReducedState::from_simulation_state
FromSimulationState ==
    /\ pc = "reduce"
    /\ node' = from_simulation_state(input, settings, step.durability_cost)
    /\ pc' = "reduced"
    /\ UNCHANGED <<settings, simvars, input, bound_table, visited_states,
                   search_queue, traces, best_quality, best_state,
                   best_trace, todo, step, pops, result>>

\* the reduced state is expanded and reduced again
Expanded ==
    /\ pc = "reduced"
    /\ result' = from_simulation_state_inner(
                     to_simulation_state(node, settings), settings,
                     step.durability_cost)
    /\ step' = [step EXCEPT !.kind = "expanded"]
    /\ pc' = "returned"
    /\ UNCHANGED <<settings, simvars, input, bound_table, visited_states,
                   search_queue, traces, best_quality, best_state,
                   best_trace, node, todo, pops>>

\* the call of ReducedState::use_action
ReducedUseAction ==
    /\ pc = "reduced"
    /\ \E a \in ReducedActions :
          /\ result' = reduced_use_action(node, a, settings,
                                          step.durability_cost)
          /\ step' = [kind |-> "used", action |-> a,
                      durability_cost |-> step.durability_cost]
    /\ pc' = "returned"
    /\ UNCHANGED <<settings, simvars, input, bound_table, visited_states,
                   search_queue, traces, best_quality, best_state,
                   best_trace, node, todo, pops>>

ReduceNext == FromSimulationState \/ Expanded \/ ReducedUseAction

SpecReduce == ReduceInit /\ [][ReduceNext]_vars

(***************************************************************************)
(* The simulator after Manipulation: the craft has used one action and     *)
(* then Manipulation under Normal; calls counts the actions used since.    *)
(***************************************************************************)
MaxFollowing == 9

ManipulationSettings ==
    {Settings(300, 40, 3000, 400, Actions),
     Settings(150, 20, 1500, 400, Actions)}

\* the actions used after Manipulation
FollowingActions ==
    {"BasicSynthesis", "PrudentSynthesis", "Observe", "MasterMend",
     "WasteNot"}

ManipulationInit ==
    /\ settings \in ManipulationSettings
    /\ \E a \in {"BasicSynthesis", "Groundwork", "Observe"} :
          /\ last = [action |-> "Manipulation", condition |-> "Normal",
                     before |-> use_action(NewInProgress(settings), a,
                                           "Normal", settings)]
          /\ sim = use_actions(NewInProgress(settings),
                               <<a, "Manipulation">>, "Normal", settings)
    /\ calls = 0
    /\ pc = "manipulation"
    /\ input = sim
    /\ bound_table = <<>>
    /\ visited_states = <<>>
    /\ search_queue = {}
    /\ traces = <<>>
    /\ best_quality = 0
    /\ best_state = <<>>
    /\ best_trace = 0
    /\ node = NoNode
    /\ todo = <<>>
    /\ step = NoStep
    /\ pops = 0
    /\ result = <<>>

\* one use_action call, of an action other than Manipulation
UseFollowing ==
    /\ pc = "manipulation"
    /\ calls < MaxFollowing
    /\ IsInProgress(sim)
    /\ \E a \in FollowingActions, condition \in {"Normal", "Pliant"} :
          /\ sim' = use_action(sim, a, condition, settings)
          /\ last' = [action |-> a, condition |-> condition, before |-> sim]
    /\ calls' = calls + 1
    /\ UNCHANGED <<settings, solvervars>>

ManipulationNext == UseFollowing

SpecManipulation == ManipulationInit /\ [][ManipulationNext]_vars


(***************************************************************************)
(* Properties.                                                             *)
(***************************************************************************)
\* the state the returned macro ends in when replayed from the input
Replayed == use_actions(input, result[1], "Normal", settings)

Returned == pc = "done" /\ result # <<>>

\* a play of allowed actions from the input has completed the craft
PlayCompleted == pc = "done" /\ sim.tag = "Completed"

\* C1: no play of allowed actions under Normal from the input completes
\* with more quality than the replay of the macro solve returned
C1_Optimal ==
    (Returned /\ PlayCompleted) =>
        /\ Replayed.tag = "Completed"
        /\ Replayed.missing_quality <= sim.missing_quality

\* C2: solve returns None exactly when the input is not in progress or no
\* play of allowed actions under Normal from the input completes the craft;
\* a returned macro itself completes the craft
C2_NoneIffUnreachable ==
    pc = "done" =>
        IF result = <<>>
        THEN ~IsInProgress(input) \/ sim.tag # "Completed"
        ELSE IsInProgress(input) /\ Replayed.tag = "Completed"

\* solve returned None for an in-progress input
C2_Witness == pc = "done" /\ result = <<>> /\ IsInProgress(input)

\* C3 as claimed: the replay of a returned macro ends Completed at its last
\* action with the quality do_solve tracked as best_quality
C3_ReplayReportedBest ==
    Returned =>
        /\ Replayed.tag = "Completed"
        /\ settings.max_quality - Replayed.missing_quality = best_quality

\* C3: the replay of a returned macro ends Completed at its last action;
\* its quality is best_quality when do_solve found a best state, and the
\* quality of the input when solve fell back to the finish sequence
C3_ReplayQuality ==
    Returned =>
        /\ Replayed.tag = "Completed"
        /\ settings.max_quality - Replayed.missing_quality =
               IF best_state # <<>> THEN best_quality
               ELSE settings.max_quality - input.missing_quality

\* a macro of a search prefix and a finish sequence was returned
C3_Witness ==
    /\ Returned
    /\ best_state # <<>>
    /\ Len(get_actions(traces, best_trace)) > 1
    /\ Replayed.tag = "Completed"

\* the bound monotonic_fuzz_check compares: the quality upper bound of a
\* state in progress, the capped quality of a completed state, 0 otherwise
BoundOfState(st) ==
    IF IsInProgress(st)
    THEN quality_upper_bound(Solved(bound_table, st, settings), st, settings)
    ELSE IF st.tag = "Completed"
    THEN Min(settings.max_quality, settings.max_quality - st.missing_quality)
    ELSE 0

C6_FinishSound ==
    /\ (step.kind = "expand" /\ step.verdict = "unfinishable") =>
           ~can_finish(step.child, settings)
    /\ (pc = "done" /\ last # NoCall
          /\ ~can_finish(last.before, settings)) =>
           /\ sim.tag # "Completed"
           /\ IsInProgress(sim) => ~can_finish(sim, settings)

\* the search has dropped a child as unfinishable, and a play has taken a
\* step from a state can_finish rejects
C6_Witness ==
    /\ pc = "done"
    /\ last # NoCall
    /\ ~can_finish(last.before, settings)
    /\ IsInProgress(sim)
    /\ result # <<>>

\* C8: the while loop of do_solve ends: it never reaches MaxPops
\* iterations, the for loop is never left with no action to try, a push never
\* panics, and the loop is left only with the queue empty
C8_Terminates ==
    /\ pops < MaxPops
    /\ pc \in {"solve", "loop", "expand", "done"}
    /\ pc = "expand" => todo # <<>>
    /\ (pc = "done" /\ IsInProgress(input) /\ can_finish(input, settings)) =>
           search_queue = {} /\ result # <<>>

\* a search of several expansions has ended
C8_Witness ==
    /\ pc = "done"
    /\ search_queue = {}
    /\ Len(traces) > 3
    /\ step.kind = "finish"

\* C9 as claimed: an action under Normal that leaves the craft in progress
\* leaves it with less CP
C9_StrictlyDecreasing ==
    (last # NoCall /\ last.condition = "Normal" /\ IsInProgress(sim)) =>
        sim.cp < last.before.cp

\* C9: an action under Normal that leaves the craft in progress takes its
\* CP cost from the CP, and so never adds CP; the CP is less exactly when
\* the cost is not 0
C9_NonIncreasing ==
    (last # NoCall /\ last.condition = "Normal" /\ IsInProgress(sim)) =>
        /\ sim.cp = last.before.cp
                       - cp_cost(last.action, last.before.effects, "Normal")
        /\ sim.cp <= last.before.cp

\* an action of CP cost 0 was used under Normal and the craft is in progress
C9_Witness ==
    /\ last # NoCall
    /\ last.condition = "Normal"
    /\ IsInProgress(sim)
    /\ sim.cp = last.before.cp
    /\ calls > 1

\* C10: a state in progress reached from State::new has a durability that
\* is a multiple of 5 in 1..max_durability, a CP in 0..max_cp and progress
\* missing
C10_Invariant ==
    (pc = "sim" /\ IsInProgress(sim)) =>
        /\ sim.durability % 5 = 0
        /\ 0 < sim.durability
        /\ sim.durability <= settings.max_durability
        /\ 0 <= sim.cp
        /\ sim.cp <= settings.max_cp
        /\ sim.missing_progress > 0

\* MasterMend has restored durability up to the maximum
C10_Witness ==
    /\ pc = "sim"
    /\ IsInProgress(sim)
    /\ last # NoCall
    /\ last.action = "MasterMend"
    /\ last.before.durability < settings.max_durability
    /\ sim.durability = settings.max_durability

\* C11: use_action returns Invalid exactly when a precondition fails: the
\* CP cost exceeds the CP, the required combo is not the state's combo,
\* ByregotsBlessing without inner quiet, a Prudent action under waste not,
\* IntensiveSynthesis, PreciseTouch or TricksOfTheTrade under a condition
\* other than Good or Excellent, Groundwork with less durability than its
\* cost, TrainedFinesse with inner quiet other than 10
C11_InvalidIffPrecondition ==
    (pc = "sim" /\ last # NoCall) =>
        (sim.tag = "Invalid" <=>
            \/ cp_cost(last.action, last.before.effects, last.condition)
                   > last.before.cp
            \/ /\ required_combo(last.action) # NoCombo
               /\ required_combo(last.action) # last.before.combo
            \/ /\ last.action = "ByregotsBlessing"
               /\ last.before.effects.inner_quiet = 0
            \/ /\ last.action \in {"PrudentSynthesis", "PrudentTouch"}
               /\ last.before.effects.waste_not > 0
            \/ /\ last.action \in {"IntensiveSynthesis", "PreciseTouch",
                                   "TricksOfTheTrade"}
               /\ last.condition \notin {"Good", "Excellent"}
            \/ /\ last.action = "Groundwork"
               /\ last.before.durability
                     < durability_cost(last.action, last.before.effects,
                                       last.condition)
            \/ /\ last.action = "TrainedFinesse"
               /\ last.before.effects.inner_quiet # 10)

\* TrainedFinesse was refused for its inner quiet alone: the CP sufficed
C11_Witness ==
    /\ pc = "sim"
    /\ last # NoCall
    /\ last.action = "TrainedFinesse"
    /\ last.before.cp >= cp_cost("TrainedFinesse", last.before.effects,
                                  last.condition)
    /\ last.before.effects.inner_quiet > 0
    /\ sim.tag = "Invalid"

\* C13: under the settings of test_08 the quality upper bound of the state
\* after the single action PrudentTouch, combo None, is exactly 10000
C13_GoldenT5 ==
    (/\ settings = test_08_settings
     /\ input = use_actions(NewInProgress(settings), <<"PrudentTouch">>,
                            "Normal", settings)
     /\ bound_table # <<>>) =>
        quality_upper_bound(bound_table, input, settings) = 10000

\* the upper bound solver has solved the state after PrudentTouch, which
\* has 7 CP, 5 durability, a quality of 10000 and no combo
C13_Witness ==
    /\ settings = test_08_settings
    /\ input = use_actions(NewInProgress(settings), <<"PrudentTouch">>,
                           "Normal", settings)
    /\ IsInProgress(input)
    /\ input.cp = 7
    /\ input.durability = 5
    /\ input.missing_quality = 10000
    /\ input.combo = NoCombo
    /\ bound_table # <<>>
    /\ pc = "loop"
    /\ step.kind = "start"
    /\ \E e \in search_queue : e.bound = 10000

\* C14: completion is checked before failure: a usable action that brings
\* the missing progress to 0 yields Completed, with the missing quality
\* after the quality increase of that action, also when it brings the
\* durability to 0 or below; the result is Failed exactly when the
\* durability is 0 or below and progress is still missing
C14_CompletedBeforeFailed ==
    (pc = "sim" /\ last # NoCall /\ sim.tag # "Invalid") =>
        LET mp == SatSub(last.before.missing_progress,
                         progress_increase(last.action, settings,
                                           last.before.effects,
                                           last.condition))
            mq == SatSub(last.before.missing_quality,
                         quality_increase(last.action, settings,
                                          last.before.effects,
                                          last.condition))
            d == last.before.durability
                   - durability_cost(last.action, last.before.effects,
                                     last.condition)
        IN  /\ mp = 0 => sim = Completed(mq)
            /\ sim.tag = "Failed" <=> (d <= 0 /\ mp > 0)
            /\ sim.tag = "Failed" => sim.missing_progress = mp

\* the action that completed the craft used up the durability
C14_Witness ==
    /\ pc = "sim"
    /\ last # NoCall
    /\ sim.tag = "Completed"
    /\ last.before.durability
          - durability_cost(last.action, last.before.effects,
                            last.condition) <= 0

\* C15: Manipulation does not heal on the turn it is used: used under
\* Normal on a state in progress, also one whose manipulation effect is
\* active, it leaves the durability as it was and the manipulation counter
\* at exactly 8; it is refused only for lack of CP
C15_ManipulationNoHeal ==
    (/\ pc = "sim"
     /\ last # NoCall
     /\ last.action = "Manipulation"
     /\ last.condition = "Normal") =>
        IF last.before.cp < 96 THEN sim.tag = "Invalid"
        ELSE /\ IsInProgress(sim)
             /\ sim.durability = last.before.durability
             /\ sim.effects.manipulation = 8

\* Manipulation was used while a manipulation effect was active and
\* durability was missing
C15_Witness ==
    /\ pc = "sim"
    /\ last # NoCall
    /\ last.action = "Manipulation"
    /\ last.condition = "Normal"
    /\ last.before.effects.manipulation > 0
    /\ last.before.durability < settings.max_durability
    /\ IsInProgress(sim)
    /\ sim.effects.manipulation = 8

\* C16: after Manipulation under Normal, each of the next 8 actions that is
\* not Manipulation and leaves the craft in progress restores 5 durability,
\* up to the maximum, after its own durability cost; the counter goes down
\* by 1 with each and is 0 after the 8th; the 9th restores nothing
C16_ManipulationHeals ==
    (pc = "manipulation" /\ calls > 0 /\ IsInProgress(sim)) =>
        LET d == last.before.durability
                   - durability_cost(last.action, last.before.effects,
                                     last.condition)
            healed == IF calls <= 8
                      THEN Min(d + 5, settings.max_durability) ELSE d
        IN  /\ sim.durability =
                   IF last.action = "MasterMend"
                   THEN Min(settings.max_durability, healed + 30)
                   ELSE healed
            /\ sim.effects.manipulation = IF calls <= 8 THEN 8 - calls ELSE 0

\* the 9th action after Manipulation has cost durability and restored none
C16_Witness ==
    /\ pc = "manipulation"
    /\ calls = 9
    /\ IsInProgress(sim)
    /\ last.action = "BasicSynthesis"
    /\ last.before.effects.manipulation = 0
    /\ sim.durability < last.before.durability
    /\ sim.durability < settings.max_durability - 5

\* C17: a step that leaves the craft in progress and raised the quality
\* leaves great_strides at 0 (unless the action is GreatStrides); at a job
\* level of 11 or more it takes inner quiet to min(10, old + 2) for
\* Reflect, PreciseTouch and PreparatoryTouch and to min(10, old + 1) for
\* any other action, and ByregotsBlessing then takes it to 0; at a job level
\* below 11, or without a quality increase, inner quiet is not raised
C17_InnerQuiet ==
    (pc = "sim" /\ last # NoCall /\ IsInProgress(sim)) =>
        LET qi == quality_increase(last.action, settings,
                                   last.before.effects, last.condition)
            old == last.before.effects.inner_quiet
        IN  /\ (qi # 0 /\ last.action # "GreatStrides") =>
                   sim.effects.great_strides = 0
            /\ sim.effects.inner_quiet =
                   IF last.action = "ByregotsBlessing" THEN 0
                   ELSE IF qi = 0 \/ settings.job_level < 11 THEN old
                   ELSE IF last.action \in {"Reflect", "PreciseTouch",
                                            "PreparatoryTouch"}
                   THEN IF old + 2 < 10 THEN old + 2 ELSE 10
                   ELSE IF old + 1 < 10 THEN old + 1 ELSE 10

\* PreciseTouch at an inner quiet of 9, under great strides: inner quiet
\* stops at 10 and great strides is used up
C17_Witness ==
    /\ pc = "sim"
    /\ last # NoCall
    /\ IsInProgress(sim)
    /\ last.action = "PreciseTouch"
    /\ last.before.effects.inner_quiet = 9
    /\ last.before.effects.great_strides > 0
    /\ sim.effects.inner_quiet = 10
    /\ sim.effects.great_strides = 0

\* C18: use_actions applies the actions from left to right: the empty list
\* returns the state it is called on; otherwise the result is the last
\* action used on the state the actions before it lead to, and Invalid when
\* that state is not in progress, so that a Completed or Failed result is
\* always the result of the last action
C18_UseActions ==
    pc = "returned" =>
        IF todo = <<>> THEN sim = input
        ELSE LET before == use_actions(input, SubSeq(todo, 1, Len(todo) - 1),
                                       "Normal", settings)
             IN  /\ sim = IF IsInProgress(before)
                          THEN use_action(before, todo[Len(todo)], "Normal",
                                          settings)
                          ELSE Invalid
                 /\ sim.tag \in {"Completed", "Failed"} =>
                        IsInProgress(before)
                 /\ (\E k \in 1..Len(todo) :
                        ~IsInProgress(use_actions(input,
                                                  SubSeq(todo, 1, k - 1),
                                                  "Normal", settings))) =>
                        sim = Invalid

\* the craft was completed before the last action of the list: the call
\* returned Invalid
C18_Witness ==
    /\ pc = "returned"
    /\ Len(todo) = 3
    /\ IsInProgress(input)
    /\ use_actions(input, SubSeq(todo, 1, 2), "Normal", settings).tag
          = "Completed"
    /\ sim = Invalid

C20_PopPruning ==
    [][
        /\ (pc = "loop" /\ step'.kind = "pop") =>
               /\ node'.bound > best_quality
               /\ best_quality # settings.max_quality
        /\ (pc = "loop" /\ pc' # "done"
                /\ (best_quality = settings.max_quality
                       \/ node'.bound <= best_quality)) =>
               /\ step'.kind = "skip"
               /\ pc' = "loop"
        /\ (pc \in {"loop", "expand"}
                /\ best_quality = settings.max_quality) =>
               /\ step'.kind # "pop"
               /\ UNCHANGED <<traces, best_quality, best_state, best_trace>>
       ]_vars

\* a node was popped and skipped after best_quality had reached max_quality
C20_Witness ==
    /\ pc = "loop"
    /\ step.kind = "skip"
    /\ best_quality = settings.max_quality
    /\ best_state # <<>>
    /\ traces # <<>>

\* C21: the trace vector only grows; its entry 0 is None, every later entry
\* i holds a parent index less than i, and the backtrack_index of every
\* queued node is an index of the vector; get_actions(traces, best_trace)
\* returns the actions that lead from the initial state to best_state, in
\* the order they were used
C21_TracesWellFormed ==
    [][
        /\ Len(traces) <= Len(traces')
        /\ SubSeq(traces', 1, Len(traces)) = traces
        /\ traces' # <<>> => traces'[1] = <<>>
        /\ \A i \in 2..Len(traces') :
               /\ traces'[i] # <<>>
               /\ traces'[i][1].parent \in 0..(i - 2)
        /\ \A e \in search_queue' :
               e.backtrack_index \in 0..(Len(traces') - 1)
        /\ best_state' # <<>> =>
               /\ best_trace' \in 1..(Len(traces') - 1)
               /\ use_actions(input', get_actions(traces', best_trace'),
                              "Normal", settings') = best_state'[1]
       ]_vars

\* the best state is two or more actions away from the initial state
C21_Witness ==
    /\ pc = "done"
    /\ best_state # <<>>
    /\ Len(traces) > 3
    /\ Len(get_actions(traces, best_trace)) >= 2
    /\ traces[best_trace + 1][1].parent # 0

\* C22: the queue is used as a monotone priority queue: a node popped has
\* the greatest bound in the queue, which is not more than the bound of the
\* node popped before it, and every bound pushed while a node is expanded
\* is not more than the bound that node was popped with
C22_MonotoneQueue ==
    [][
        /\ (pc = "loop" /\ pc' # "done") =>
               /\ \A e \in search_queue : e.bound <= node'.bound
               /\ pops > 0 => node'.bound <= node.bound
        /\ pc = "expand" =>
               \A e \in search_queue' \ search_queue : e.bound <= node.bound
        /\ pc' # "panic"
       ]_vars

\* a child was pushed with a bound below the bound of the node expanded,
\* which was not the first node popped
C22_Witness ==
    /\ pc \in {"loop", "expand"}
    /\ pops > 1
    /\ step.kind = "expand"
    /\ step.verdict = "push"
    /\ step.bound < node.bound
    /\ \E e \in search_queue : e.bound = step.bound /\ e.state = step.child

\* C23: every state pushed to the queue, and so best_state, is a state in
\* progress that can_finish accepts: a Completed, Failed or Invalid child is
\* never pushed, and the finish sequence of a pushed state exists and
\* completes the craft from it
C23_OnlyFinishable ==
    [][
        /\ \A e \in search_queue' \ search_queue :
               /\ IsInProgress(e.state)
               /\ can_finish(e.state, settings)
               /\ use_actions(e.state,
                              get_finish_sequence(e.state, settings),
                              "Normal", settings).tag = "Completed"
        /\ (step'.kind = "expand"
                /\ step'.verdict \in {"final", "unfinishable"}) =>
               search_queue' = search_queue
        /\ best_state' # best_state =>
               \E e \in search_queue' \ search_queue :
                  best_state' = <<e.state>>
       ]_vars

\* the search has pushed a best state and has dropped a child that was not
\* in progress
C23_Witness ==
    /\ pc \in {"loop", "expand"}
    /\ best_state # <<>>
    /\ search_queue # {}
    /\ step.kind = "expand"
    /\ step.verdict = "final"
    /\ step.child.tag \in {"Failed", "Invalid"}

\* C24: for a finishable initial state, solve returns the finish sequence
\* of the initial state exactly when the search has enqueued no successor
\* with a quality above 0 (do_solve returns None); otherwise it returns the
\* traced actions that lead to best_state followed by the finish sequence
\* of best_state
C24_Fallback ==
    (pc = "done" /\ IsInProgress(input) /\ can_finish(input, settings)) =>
        IF \A i \in 2..Len(traces) :
              use_actions(input, get_actions(traces, i - 1), "Normal",
                          settings).missing_quality = settings.max_quality
        THEN /\ best_state = <<>>
             /\ result = <<get_finish_sequence(input, settings)>>
        ELSE /\ best_state # <<>>
             /\ best_state[1].missing_quality < settings.max_quality
             /\ result = <<get_actions(traces, best_trace)
                             \o get_finish_sequence(best_state[1], settings)>>

\* the search enqueued successors, none with a quality above 0, and solve
\* returned the finish sequence of the initial state
C24_Witness ==
    /\ pc = "done"
    /\ IsInProgress(input)
    /\ Len(traces) > 1
    /\ best_state = <<>>
    /\ result = <<get_finish_sequence(input, settings)>>

\* C25 as claimed: with no manipulation and no trained perfection, the cp
\* of the reduced state is the cp of the state less the durability in use,
\* (max_durability - durability) / 5 * durability_cost
C25_DeficitDebited ==
    (/\ pc = "reduced"
     /\ input.effects.manipulation = 0
     /\ ~input.effects.trained_perfection_available
     /\ ~input.effects.trained_perfection_active) =>
        node.cp = input.cp
                    - ((settings.max_durability - input.durability) \div 5)
                        * step.durability_cost

\* C25: with no manipulation and no trained perfection, the cp of the
\* reduced state is the cp of the state plus the durability it has left,
\* (durability / 5 + 1) * durability_cost: the durability is refunded as
\* CP, nothing is taken from the CP
C25_DurabilityRefunded ==
    (/\ pc = "reduced"
     /\ input.effects.manipulation = 0
     /\ ~input.effects.trained_perfection_available
     /\ ~input.effects.trained_perfection_active) =>
        /\ node.cp = input.cp
                       + (input.durability \div 5 + 1) * step.durability_cost
        /\ node.cp > input.cp
        /\ to_simulation_state(node, settings).durability
              = settings.max_durability

\* a state with durability in use, no manipulation and no trained
\* perfection has been reduced
C25_Witness ==
    /\ pc = "reduced"
    /\ input.effects.manipulation = 0
    /\ ~input.effects.trained_perfection_available
    /\ ~input.effects.trained_perfection_active
    /\ input.durability < settings.max_durability
    /\ node.cp = input.cp + 2 * step.durability_cost

\* C26: compared with the same state without manipulation and trained
\* perfection, each manipulation tick left adds durability_cost to the
\* reduced cp and trained perfection, available or active or both, adds
\* 4 * durability_cost once; the reduced state has manipulation 0 and both
\* trained perfection flags false, and its other fields are those of the
\* reduction of the state without them
C26_Refund ==
    pc = "reduced" =>
        LET plain == [input EXCEPT
                         !.effects.manipulation = 0,
                         !.effects.trained_perfection_available = FALSE,
                         !.effects.trained_perfection_active = FALSE]
            reduced == from_simulation_state(plain, settings,
                                             step.durability_cost)
        IN  /\ node.cp = reduced.cp
                  + input.effects.manipulation * step.durability_cost
                  + (IF input.effects.trained_perfection_available
                        \/ input.effects.trained_perfection_active
                     THEN 4 * step.durability_cost ELSE 0)
            /\ node.effects.manipulation = 0
            /\ ~node.effects.trained_perfection_available
            /\ ~node.effects.trained_perfection_active
            /\ node = [reduced EXCEPT !.cp = node.cp]
            /\ \A f \in DOMAIN input.effects
                       \ {"manipulation", "trained_perfection_available",
                          "trained_perfection_active", "great_strides"} :
                   node.effects[f] = input.effects[f]

\* a state with 8 manipulation ticks and both trained perfection flags has
\* been reduced: 12 units more than its durability are refunded
C26_Witness ==
    /\ pc = "reduced"
    /\ input.effects.manipulation = 8
    /\ input.effects.trained_perfection_available
    /\ input.effects.trained_perfection_active
    /\ node.cp = input.cp + (input.durability \div 5 + 1 + 8 + 4)
                               * step.durability_cost

\* C27: the reduced state holds the unreliable quality divided by
\* 2 * base_quality and rounded up, so the expanded state has an unreliable
\* quality u' with u <= u' < u + 2 * base_quality; a reduced state, whose
\* great_strides is 0 or 3, is the reduction of its own expansion
C27_RoundTrip ==
    (pc = "returned" /\ step.kind = "expanded") =>
        LET u == input.unreliable_quality
            expanded == to_simulation_state(node, settings)
        IN  /\ node.compressed_unreliable_quality * (2 * settings.base_quality)
                   \in u .. (u + 2 * settings.base_quality - 1)
            /\ u <= expanded.unreliable_quality
            /\ expanded.unreliable_quality < u + 2 * settings.base_quality
            /\ node.effects.great_strides \in {0, 3}
            /\ node.effects.great_strides = 0
                   <=> input.effects.great_strides = 0
            /\ result = <<node>>

\* a state with unreliable quality 399 and one step of great strides left
\* has been reduced to 2 units and great strides 3, and its expansion,
\* with unreliable quality 400, has been reduced to the same state
C27_Witness ==
    /\ pc = "returned"
    /\ step.kind = "expanded"
    /\ input.unreliable_quality = 399
    /\ input.effects.great_strides = 1
    /\ node.compressed_unreliable_quality = 2
    /\ node.effects.great_strides = 3
    /\ result = <<node>>

\* C28: ReducedState::use_action returns None for MasterMend,
\* ImmaculateMend and Manipulation, None when the simulator rejects the
\* action, and None when the durability the action used, priced at
\* durability_cost per 5 points, exceeds the CP left after the action;
\* otherwise the successor has the CP left minus that price, and the
\* returned progress and quality are the gains of the action from 0
C28_DurabilityAsCp ==
    (pc = "returned" /\ step.kind = "used") =>
        LET a == step.action
            state == to_simulation_state(node, settings)
            after == use_action_combo(settings, state, a)
            price == ((settings.max_durability - after[1].durability) \div 5)
                         * step.durability_cost
            gained == ToInProgress(state, settings).effects
        IN  IF a \in {"MasterMend", "ImmaculateMend", "Manipulation"}
            THEN result = <<>>
            ELSE IF after = <<>> THEN result = <<>>
            ELSE IF price > after[1].cp THEN result = <<>>
            ELSE /\ result # <<>>
                 /\ result[1][1].cp = after[1].cp - price
                 /\ result[1][1].cp <= node.cp - cp_cost(a, gained, "Normal")
                 /\ result[1][2]
                        = progress_increase(a, settings, gained, "Normal")
                 /\ result[1][3]
                        = quality_increase(a, settings, gained, "Normal")
                 /\ result[1][2] = after[1].progress
                 /\ result[1][3] = after[1].quality

\* BasicTouch has been used on a reduced state: its 18 CP and twice the
\* durability cost, for 10 durability, are taken from the cp
C28_Witness ==
    /\ pc = "returned"
    /\ step.kind = "used"
    /\ step.action = "BasicTouch"
    /\ node.effects.waste_not = 0
    /\ result # <<>>
    /\ result[1][1].cp = node.cp - 18 - 2 * step.durability_cost
    /\ result[1][3] > 0

\* C29: from_simulation_state is total: for a state with durability at most
\* max_durability the inner reduction is called with durability
\* max_durability, so the durability cost it subtracts is 0 and it returns
\* Some; the reduced cp is the state's cp plus
\* (durability / 5 + 1 + manipulation + 4 if trained perfection is
\* available or active) * durability_cost
C29_Total ==
    (pc = "reduced" /\ input.durability <= settings.max_durability) =>
        LET tp == input.effects.trained_perfection_active
                      \/ input.effects.trained_perfection_available
            state == Refunded(input, settings, step.durability_cost, tp)
            used_durability_cost ==
                ((settings.max_durability - state.durability) \div 5)
                    * step.durability_cost
            inner == from_simulation_state_inner(state, settings,
                                                 step.durability_cost)
        IN  /\ state.durability = settings.max_durability
            /\ used_durability_cost = 0
            /\ inner # <<>>
            /\ node = inner[1]
            /\ node.cp = input.cp
                  + (input.durability \div 5 + 1 + input.effects.manipulation
                       + (IF tp THEN 4 ELSE 0)) * step.durability_cost
            /\ node.cp < 65536

\* a state with no CP, 5 durability, 3 manipulation ticks and trained
\* perfection active has been reduced at durability cost 100: the inner
\* reduction, which would return None for 3 missing units of durability and
\* no CP, returned a state with cp 900
C29_Witness ==
    /\ pc = "reduced"
    /\ input.cp = 0
    /\ input.durability = 5
    /\ input.effects.manipulation = 3
    /\ input.effects.trained_perfection_active
    /\ ~input.effects.trained_perfection_available
    /\ step.durability_cost = 100
    /\ from_simulation_state_inner(input, settings, 100) = <<>>
    /\ node.cp = 900

\* C30: every action recorded in the traces of do_solve, and so every action
\* of the returned macro before the finishing sequence, is in
\* allowed_actions and SEARCH_ACTIONS and was applied under
\* Condition::Normal; IntensiveSynthesis, PreciseTouch and TricksOfTheTrade,
\* which Condition::Normal rejects on every expanded state, are never
\* recorded
C30_ActionGates ==
    LET searched == settings.allowed_actions \cap SEARCH_ACTIONS
        gated == {"IntensiveSynthesis", "PreciseTouch", "TricksOfTheTrade"}
    IN  /\ \A i \in 2..Len(traces) :
               /\ traces[i][1].action \in searched
               /\ traces[i][1].action \notin gated
        /\ \A i \in 1..Len(todo) : todo[i] \in searched
        /\ pc = "expand" =>
               \A a \in gated :
                   /\ ~can_use_action(node.state, a, "Normal")
                   /\ use_action(node.state, a, "Normal", settings) = Invalid
        /\ step.kind = "expand" =>
               /\ step.action \in searched
               /\ step.child = use_action(step.parent.state, step.action,
                                          "Normal", settings)
               /\ step.verdict = "push" =>
                      /\ can_use_action(step.parent.state, step.action,
                                        "Normal")
                      /\ traces[Len(traces)][1].action = step.action
        /\ (pc = "done" /\ best_state # <<>>) =>
               LET prefix == get_actions(traces, best_trace)
               IN  \A i \in 1..Len(prefix) :
                       prefix[i] \in searched \ gated

\* a search with every action allowed, whose initial state has the CP for
\* PreciseTouch and would accept it under Condition::Good, has ended with a
\* recorded prefix
C30_Witness ==
    /\ pc = "done"
    /\ "PreciseTouch" \in settings.allowed_actions
    /\ "IntensiveSynthesis" \in settings.allowed_actions
    /\ IsInProgress(input)
    /\ can_use_action(input, "PreciseTouch", "Good")
    /\ ~can_use_action(input, "PreciseTouch", "Normal")
    /\ best_state # <<>>
    /\ Len(traces) >= 2
    /\ Len(get_actions(traces, best_trace)) >= 1

====
